---------------------------- MODULE Spec2Model ----------------------------
(***************************************************************************)
(* Medical records service (backend/apps/records): record CRUD, document   *)
(* upload with text extraction, audit emission and the assembly of the     *)
(* patient's medical context for the triage prompt.                        *)
(*                                                                         *)
(* Text is modelled by TLA+ strings, one character per Python character.   *)
(***************************************************************************)
EXTENDS Integers, Sequences, FiniteSets, TLC

VARIABLES
    records,    \* table MedicalRecord: sequence of rows, the id is the index
    documents,  \* table MedicalDocument: sequence of rows, the id is the index
    audit,      \* the audit sink: sequence of logged events
    now,        \* the clock that stamps created_at; it advances with every row
    db,         \* the database backend the deployment runs on
    failures,   \* the number of log_action calls that raised
    response,   \* what the last request returned
    triage,     \* tables TriageSession, TriageResult and ImageAnalysis
    call        \* a get_patient_medical_context call between its queries

vars == <<records, documents, audit, now, db, failures, response, triage, call>>

----------------------------------------------------------------------------
(* Bounds of the model. *)

MaxRecords == 2
MaxDocuments == 1
MaxAudit == 2
MaxFailures == 1
MaxCtxRecords == 3
MaxCtxDocuments == 7
MaxLoopRecords == 3
MaxPages == 3
MaxSessions == 2
MaxImages == 1

(* Program constants. *)

DetailsCap == 500
DocumentTextCap == 2000
ContextCap == 10000
DocumentLimit == 5
ExtractCap == 50000
MaxUploadBytes == 20971520

----------------------------------------------------------------------------
(* Strings. *)

Min(a, b) == IF a < b THEN a ELSE b

\* s[:n]
Take(s, n) == SubSeq(s, 1, Min(n, Len(s)))

\* s[n:]
Drop(s, n) == SubSeq(s, Min(n, Len(s)) + 1, Len(s))

RECURSIVE Rep(_, _)
\* c * n
Rep(c, n) ==
    IF n = 0 THEN ""
    ELSE IF n % 2 = 1 THEN c \o Rep(c, n - 1)
    ELSE LET h == Rep(c, n \div 2) IN h \o h

RECURSIVE Join(_, _)
\* sep.join(parts)
Join(sep, parts) ==
    IF parts = <<>> THEN ""
    ELSE IF Len(parts) = 1 THEN parts[1]
    ELSE Join(sep, SubSeq(parts, 1, Len(parts) - 1)) \o sep \o parts[Len(parts)]

\* The characters record types are written in, in code point order.
Alphabet == "ABCDEFGHIJKLMNOPQRSTUVWXYZ_"

Ord(c) == CHOOSE i \in 1..Len(Alphabet) : SubSeq(Alphabet, i, i) = c

RECURSIVE StrLess(_, _)
\* a < b on strings, as ORDER BY compares a CharField
StrLess(a, b) ==
    IF b = "" THEN FALSE
    ELSE IF a = "" THEN TRUE
    ELSE LET x == Ord(SubSeq(a, 1, 1))
             y == Ord(SubSeq(b, 1, 1))
         IN  IF x # y THEN x < y ELSE StrLess(Drop(a, 1), Drop(b, 1))

----------------------------------------------------------------------------
(* models/medical_record.py *)

\* MedicalRecord.RecordType, in declaration order
RecordType == <<"CONDITION", "MEDICATION", "ALLERGY", "PROCEDURE", "VITAL",
                "LAB_RESULT", "IMMUNIZATION", "FAMILY_HISTORY", "OTHER">>

\* r.get_record_type_display()
RecordTypeDisplay(t) ==
    CASE t = "CONDITION" -> "Condition / Diagnosis"
      [] t = "MEDICATION" -> "Medication"
      [] t = "ALLERGY" -> "Allergy"
      [] t = "PROCEDURE" -> "Procedure"
      [] t = "VITAL" -> "Vital Sign"
      [] t = "LAB_RESULT" -> "Lab Result"
      [] t = "IMMUNIZATION" -> "Immunization"
      [] t = "FAMILY_HISTORY" -> "Family History"
      [] t = "OTHER" -> "Other"

\* doc.get_document_type_display()
DocumentTypeDisplay(t) ==
    CASE t = "LAB_REPORT" -> "Lab Report"
      [] t = "DISCHARGE_SUMMARY" -> "Discharge Summary"
      [] t = "PRESCRIPTION" -> "Prescription"
      [] t = "IMAGING" -> "Imaging Report"
      [] t = "REFERRAL" -> "Referral Letter"
      [] t = "INSURANCE" -> "Insurance Document"
      [] t = "OTHER" -> "Other"

\* date_recorded is NULL
NoDate == [y |-> 0, m |-> 0, d |-> 0]

Pad(n, w) == Rep("0", w - Len(ToString(n))) \o ToString(n)

\* str(date): ISO format
DateStr(dt) == Pad(dt.y, 4) \o "-" \o Pad(dt.m, 2) \o "-" \o Pad(dt.d, 2)

\* date a < date b
DateLess(a, b) ==
    \/ a.y < b.y
    \/ a.y = b.y /\ a.m < b.m
    \/ a.y = b.y /\ a.m = b.m /\ a.d < b.d

\* One character standing for U+2014, the dash of the summary line.
EmDash == "~"


----------------------------------------------------------------------------
(* services/record_service.py: AI context assembly, lines 201-250.          *)
(* recs and docs are the rows the two queries returned, in query order.     *)

\* current_type = None
NoType == "<None>"

RECURSIVE DataLines(_)
\* for key, val in r.data.items(): sections.append(f"  {key}: {val}")
DataLines(data) ==
    IF data = <<>> THEN <<>>
    ELSE <<"  " \o Head(data).key \o ": " \o Head(data).val>> \o DataLines(Tail(data))

\* line = f"- {r.title}" and its optional parts
SummaryLine(r) ==
    "- " \o r.title
    \o (IF r.status # "" THEN " (Status: " \o r.status \o ")" ELSE "")
    \o (IF r.severity # "" THEN " [Severity: " \o r.severity \o "]" ELSE "")
    \o (IF r.date_recorded # NoDate
        THEN " " \o EmDash \o " " \o DateStr(r.date_recorded) ELSE "")

\* f"  Details: {r.description}"
DetailsLineUncut(r) == "  Details: " \o r.description

\* f"  Details: {r.description[:500]}"
DetailsLine(r) == "  Details: " \o Take(r.description, DetailsCap)

\* what one pass of the loop body appends after the heading
RecordLines(r) ==
    <<SummaryLine(r)>>
    \o (IF r.description # "" THEN <<DetailsLine(r)>> ELSE <<>>)
    \o (IF r.data # <<>> THEN DataLines(r.data) ELSE <<>>)

\* f"\n## {r.get_record_type_display()}"
Heading(r) == "\n## " \o RecordTypeDisplay(r.record_type)

\* current_type is never assigned: every record gets a heading
StartsGroupNoAssign(r, current_type) == r.record_type # NoType

\* if r.record_type != current_type
StartsGroup(r, current_type) == r.record_type # current_type

RECURSIVE RecordSection(_, _)
\* for r in records: ...
RecordSection(recs, current_type) ==
    IF recs = <<>> THEN <<>>
    ELSE LET r == Head(recs)
         IN  (IF StartsGroup(r, current_type) THEN <<Heading(r)>> ELSE <<>>)
             \o RecordLines(r)
             \o RecordSection(Tail(recs), r.record_type)

DocumentsHeading == "\n## Uploaded Medical Documents"

\* f"\n### {doc.original_filename} ({doc.get_document_type_display()})"
DocumentHeading(doc) ==
    "\n### " \o doc.original_filename
    \o " (" \o DocumentTypeDisplay(doc.document_type) \o ")"

\* doc.extracted_text[:2000]
DocumentText(doc) == Take(doc.extracted_text, DocumentTextCap)

RECURSIVE DocumentLines(_)
DocumentLines(docs) ==
    IF docs = <<>> THEN <<>>
    ELSE <<DocumentHeading(Head(docs)), DocumentText(Head(docs))>>
         \o DocumentLines(Tail(docs))

\* if documents.exists(): ...
DocumentSection(docs) ==
    IF docs # <<>> THEN <<DocumentsHeading>> \o DocumentLines(docs) ELSE <<>>

\* the list `sections` when the function returns
Sections(recs, docs) ==
    IF recs = <<>> THEN <<>>
    ELSE RecordSection(recs, NoType) \o DocumentSection(docs)

\* context[:10001]
CapContextOffByOne(context) == Take(context, ContextCap + 1)

\* context[:10000]
CapContext(context) == Take(context, ContextCap)

\* the early return is missing: documents alone make a context
AssembleContextNoExit(recs, docs) ==
    CapContext(Join("\n", RecordSection(recs, NoType) \o DocumentSection(docs)))

\* get_patient_medical_context, given what its queries returned
AssembleContext(recs, docs) ==
    IF recs = <<>> THEN ""
    ELSE CapContext(Join("\n", Sections(recs, docs)))

----------------------------------------------------------------------------
(* The queries of services/record_service.py.                               *)
(* ORDER BY fixes the order of two rows only where its keys differ: rows    *)
(* equal on every key come back in an order SQL leaves to the backend, so a *)
(* query's result is any one of the orders its keys allow.                  *)

Users == {"u1", "u2"}

\* Backends Django runs on; they differ in where ORDER BY puts NULL.
Databases == {"postgresql", "sqlite"}

\* PostgreSQL sorts NULL as larger than every value, SQLite as smaller.
NullsLargest == db = "postgresql"

\* the number of rows of S that the order puts strictly before x; before[y][x]
\* is: the sort keys put row y strictly before row x
RankIn(S, x, before) == Cardinality({y \in S : before[y][x]})

RECURSIVE Orderings(_, _)
\* every sequence of the rows S that ascends in rank
Orderings(S, rank) ==
    IF S = {} THEN {<<>>}
    ELSE LET first == {x \in S : \A y \in S : rank[x] <= rank[y]}
         IN  UNION {{<<x>> \o t : t \in Orderings(S \ {x}, rank)} : x \in first}

\* "-date_recorded": a before b
DateDescBefore(a, b) ==
    IF a = NoDate THEN b # NoDate /\ NullsLargest
    ELSE IF b = NoDate THEN ~NullsLargest
    ELSE DateLess(b, a)

\* the categories compared by their place in the enumeration
TypeBeforeEnumeration(a, b) ==
    (CHOOSE i \in DOMAIN RecordType : RecordType[i] = a)
        < (CHOOSE i \in DOMAIN RecordType : RecordType[i] = b)

\* "record_type": a before b
TypeBefore(a, b) == StrLess(a, b)

\* order_by("record_type", "-date_recorded")
ContextBefore(a, b) ==
    \/ TypeBefore(a.record_type, b.record_type)
    \/ /\ a.record_type = b.record_type
       /\ DateDescBefore(a.date_recorded, b.date_recorded)

\* order_by("-date_recorded", "-created_at")
ListBefore(a, b) ==
    \/ DateDescBefore(a.date_recorded, b.date_recorded)
    \/ /\ a.date_recorded = b.date_recorded
       /\ a.created_at > b.created_at

\* MedicalDocument.Meta.ordering = ["-created_at"]
DocumentBefore(a, b) == a.created_at > b.created_at

\* the owner filter is missing
ActiveRecordsAnyOwner(u) == {i \in DOMAIN records : ~records[i].is_deleted}

\* MedicalRecord.objects.filter(user=user)
ActiveRecordsUnfiltered(u) == {i \in DOMAIN records : records[i].user = u}

\* MedicalRecord.objects.filter(user=user, is_deleted=False)
ActiveRecords(u) ==
    {i \in DOMAIN records : records[i].user = u /\ ~records[i].is_deleted}

\* MedicalDocument.objects.filter(user=user, is_deleted=False)
ActiveDocuments(u) ==
    {i \in DOMAIN documents : documents[i].user = u /\ ~documents[i].is_deleted}

\* the exclude is missing
WithTextUnfiltered(D) == D

\* .exclude(extracted_text="")
WithText(D) == {i \in D : documents[i].extracted_text # ""}

\* [:5]
Limit(s) == Take(s, DocumentLimit)

\* the record query of get_patient_medical_context: sequences of ids
ContextRecords(u) ==
    LET S == ActiveRecords(u)
    IN  Orderings(S, [i \in S |->
            RankIn(S, i, [a \in S |-> [b \in S |-> ContextBefore(records[a], records[b])]])])

\* the document query of get_patient_medical_context: sequences of ids
ContextDocuments(u) ==
    LET S == WithText(ActiveDocuments(u))
    IN  {Limit(s) : s \in Orderings(S, [i \in S |->
            RankIn(S, i, [a \in S |-> [b \in S |-> DocumentBefore(documents[a], documents[b])]])])}

\* the rows of table t with the ids ids, in that order
Rows(t, ids) == [k \in 1..Len(ids) |-> t[ids[k]]]

----------------------------------------------------------------------------
(* Rows and responses. *)

\* MedicalRecord.objects.create(...), lines 33-44
NewRecord(u, in, t) ==
    [user |-> u, record_type |-> in.record_type, title |-> in.title,
     description |-> in.description, date_recorded |-> in.date_recorded,
     provider |-> in.provider, status |-> in.status, severity |-> in.severity,
     data |-> in.data, is_deleted |-> FALSE, created_at |-> t,
     created_by |-> u, updated_by |-> ""]

\* MedicalDocument.objects.create(...), lines 145-154
NewDocument(u, rec, file, document_type, text, t) ==
    [user |-> u, record |-> rec, original_filename |-> file.name,
     document_type |-> document_type, extracted_text |-> text,
     file_size |-> file.size, is_deleted |-> FALSE, created_at |-> t,
     created_by |-> u]

\* no triage session, result or image is stored
NoTriage == [sessions |-> <<>>, results |-> <<>>, images |-> <<>>]

\* no get_patient_medical_context call is between two of its queries
NoCall == [pc |-> "idle", user |-> "", ids |-> <<>>, rows |-> <<>>]

NoResponse ==
    [op |-> "none", user |-> "", status |-> 0, rows |-> <<>>, docs |-> <<>>,
     sections |-> <<>>, body |-> "", req |-> <<>>]

\* MedicalContextView.get: Response({"context": context}); rows and docs are
\* the ids the two queries returned and sections the list the body was joined from
ContextResponse(u, rs, ds) ==
    LET recs == Rows(records, rs)
        docs == Rows(documents, ds)
    IN  [NoResponse EXCEPT !.op = "context", !.user = u, !.status = 200,
            !.rows = rs, !.docs = IF rs = <<>> THEN <<>> ELSE ds,
            !.sections = Sections(recs, docs),
            !.body = AssembleContext(recs, docs)]

\* GET /context
MedicalContextView_get(u) ==
    /\ \E rs \in ContextRecords(u), ds \in ContextDocuments(u) :
           response' = ContextResponse(u, rs, ds)
    /\ UNCHANGED <<records, documents, audit, now, db, triage, call, failures>>

----------------------------------------------------------------------------
(* SpecLoop: lines 214-250 as a function of the fetched rows, whatever      *)
(* their order.                                                             *)

Ids(t) == [k \in 1..Len(t) |-> k]

RECURSIVE SeqsUpTo(_, _)
\* the sequences over S of length at most n
SeqsUpTo(S, n) ==
    IF n = 0 THEN {<<>>}
    ELSE LET shorter == SeqsUpTo(S, n - 1)
         IN  shorter \cup {Append(s, x) : s \in shorter, x \in S}

LoopRecords ==
    {NewRecord("u1",
        [record_type |-> ty, title |-> "A", description |-> de,
         date_recorded |-> NoDate, provider |-> "", status |-> "ACTIVE",
         severity |-> "", data |-> da], 0) :
        ty \in {"MEDICATION", "ALLERGY"},
        de \in {"", "\n## Medication"},
        da \in {<<>>, <<[key |-> "dose", val |-> "10mg"]>>}}

LoopDocuments ==
    {<<>>,
     <<NewDocument("u1", 0, [name |-> "lab.pdf", size |-> 9], "LAB_REPORT",
                   "Hb 13", 0)>>}

InitLoop ==
    /\ records \in SeqsUpTo(LoopRecords, MaxLoopRecords)
    /\ documents \in LoopDocuments
    /\ audit = <<>>
    /\ now = 0
    /\ db = "sqlite"
    /\ failures = 0
    /\ response = NoResponse
    /\ triage = NoTriage
    /\ call = NoCall

\* the body of get_patient_medical_context after its queries
Assemble ==
    /\ response' = ContextResponse("u1", Ids(records), Ids(documents))
    /\ UNCHANGED <<records, documents, audit, now, db, triage, call, failures>>

NextLoop == Assemble

SpecLoop == InitLoop /\ [][NextLoop]_vars

----------------------------------------------------------------------------
(* services/record_service.py: text extraction, lines 172-189.              *)
(* A file is [name, size, parse, pages]: parse = "corrupt" when PdfReader   *)
(* or a page's extract_text raises, pages are the page texts otherwise.     *)

Whitespace == {" ", "\t", "\n", "\r", "\f"}

RECURSIVE LStrip(_)
LStrip(s) ==
    IF s # "" /\ SubSeq(s, 1, 1) \in Whitespace THEN LStrip(Drop(s, 1)) ELSE s

RECURSIVE RStrip(_)
RStrip(s) ==
    IF s # "" /\ SubSeq(s, Len(s), Len(s)) \in Whitespace
    THEN RStrip(Take(s, Len(s) - 1)) ELSE s

\* page_text.strip()
Strip(s) == RStrip(LStrip(s))

RECURSIVE TextParts(_)
\* if page_text: text_parts.append(page_text.strip())
TextParts(pages) ==
    IF pages = <<>> THEN <<>>
    ELSE (IF Head(pages) # "" THEN <<Strip(Head(pages))>> ELSE <<>>)
         \o TextParts(Tail(pages))

\* an outcome of a call: the value returned, or an exception raised
Returned(v) == [raised |-> FALSE, value |-> v]
Raised == [raised |-> TRUE, value |-> ""]

\* the except clause is missing: the parse error reaches the caller
ExtractPdfTextUncaught(file) ==
    IF file.parse = "corrupt" THEN Raised
    ELSE Returned(Take(Join("\n\n", TextParts(file.pages)), ExtractCap))

\* the slice [:50000] is missing
ExtractPdfTextUncapped(file) ==
    IF file.parse = "corrupt" THEN Returned("")
    ELSE Returned(Join("\n\n", TextParts(file.pages)))

\* RecordService._extract_pdf_text
ExtractPdfText(file) ==
    IF file.parse = "corrupt" THEN Returned("")
    ELSE Returned(Take(Join("\n\n", TextParts(file.pages)), ExtractCap))

LowerChar(c) ==
    IF \E i \in 1..26 : SubSeq(Alphabet, i, i) = c
    THEN SubSeq("abcdefghijklmnopqrstuvwxyz", Ord(c), Ord(c))
    ELSE c

RECURSIVE Lower(_)
\* str.lower()
Lower(s) == IF s = "" THEN "" ELSE LowerChar(SubSeq(s, 1, 1)) \o Lower(Drop(s, 1))

\* str.endswith(suffix)
EndsWith(s, suffix) ==
    Len(s) >= Len(suffix) /\ SubSeq(s, Len(s) - Len(suffix) + 1, Len(s)) = suffix

\* the suffix is compared without lower()
ExtractedTextCaseSensitive(file) ==
    IF EndsWith(file.name, ".pdf") THEN ExtractPdfText(file)
    ELSE Returned("")

\* if file.name.lower().endswith(".pdf"): extracted_text = _extract_pdf_text(file)
ExtractedText(file) ==
    IF EndsWith(Lower(file.name), ".pdf") THEN ExtractPdfText(file)
    ELSE Returned("")

----------------------------------------------------------------------------
(* The audit sink, apps.audit.services.audit_service.AuditService.          *)

\* AuditService.log_action(...) when the sink accepts the event
LogAction(u, action, resource_type, resource_id, changes) ==
    Append(audit, [user_id |-> u, action |-> action,
                   resource_type |-> resource_type,
                   resource_id |-> resource_id, changes |-> changes])

\* what a call of log_action can do: log the event, or raise
SinkOutcomes == {"logged", "raised"}

\* the model follows the sink for MaxAudit events and MaxFailures refusals
SinkCan(sink) ==
    IF sink = "logged" THEN Len(audit) < MaxAudit ELSE failures < MaxFailures

----------------------------------------------------------------------------
(* api/serializers.py and RecordService.update_record.                      *)

Statuses == {"ACTIVE", "RESOLVED", "CHRONIC"}
Severities == {"MILD", "MODERATE", "SEVERE"}
RecordTypes == {RecordType[i] : i \in DOMAIN RecordType}
DocumentTypes == {"LAB_REPORT", "DISCHARGE_SUMMARY", "PRESCRIPTION", "IMAGING",
                  "REFERRAL", "INSURANCE", "OTHER"}

\* CreateRecordSerializer.is_valid
ValidCreate(in) ==
    /\ in.record_type \in RecordTypes
    /\ in.title # "" /\ Len(in.title) <= 255
    /\ Len(in.provider) <= 255
    /\ in.status \in Statuses
    /\ in.severity \in Severities \cup {""}

\* the fields UpdateRecordSerializer declares
UpdateFields == {"record_type", "title", "description", "date_recorded",
                 "provider", "status", "severity", "data"}

\* UpdateRecordSerializer.is_valid
ValidUpdate(data) ==
    /\ "record_type" \in DOMAIN data => data["record_type"] \in RecordTypes
    /\ "title" \in DOMAIN data => data["title"] # "" /\ Len(data["title"]) <= 255
    /\ "provider" \in DOMAIN data => Len(data["provider"]) <= 255
    /\ "status" \in DOMAIN data => data["status"] \in Statuses
    /\ "severity" \in DOMAIN data => data["severity"] \in Severities \cup {""}

\* serializer.validated_data: the declared fields the request carries
ValidatedData(data) == [f \in DOMAIN data \cap UpdateFields |-> data[f]]

\* allowed_fields, lines 66-69
AllowedFields == <<"title", "description", "record_type", "date_recorded",
                   "provider", "status", "severity", "data">>

RECURSIVE DictItems(_)
DictItems(data) ==
    IF data = <<>> THEN <<>>
    ELSE <<"'" \o Head(data).key \o "': '" \o Head(data).val \o "'">>
         \o DictItems(Tail(data))

\* str(updates[field])
PyStr(field, value) ==
    IF field = "date_recorded"
    THEN (IF value = NoDate THEN "None" ELSE DateStr(value))
    ELSE IF field = "data" THEN "{" \o Join(", ", DictItems(value)) \o "}"
    ELSE value

RECURSIVE SetFieldsUnguarded(_, _, _)
\* `if field in updates` is missing: a text field the request lacks is set
\* to updates.get(field, "")
SetFieldsUnguarded(row, updates, k) ==
    IF k > Len(AllowedFields) THEN row
    ELSE LET f == AllowedFields[k]
         IN  SetFieldsUnguarded(
                 IF f \in DOMAIN updates THEN [row EXCEPT ![f] = updates[f]]
                 ELSE IF f \in {"title", "description", "provider", "severity"}
                 THEN [row EXCEPT ![f] = ""]
                 ELSE row,
                 updates, k + 1)

RECURSIVE SetFields(_, _, _)
\* for field in allowed_fields: if field in updates: setattr(record, field, ...)
SetFields(row, updates, k) ==
    IF k > Len(AllowedFields) THEN row
    ELSE LET f == AllowedFields[k]
         IN  SetFields(IF f \in DOMAIN updates
                       THEN [row EXCEPT ![f] = updates[f]] ELSE row,
                       updates, k + 1)

RECURSIVE Changed(_, _)
\* changed[field] = str(updates[field])
Changed(updates, k) ==
    IF k > Len(AllowedFields) THEN <<>>
    ELSE LET f == AllowedFields[k]
         IN  (IF f \in DOMAIN updates
              THEN <<[field |-> f, value |-> PyStr(f, updates[f])]>>
              ELSE <<>>)
             \o Changed(updates, k + 1)

----------------------------------------------------------------------------
(* api/views.py with the RecordService methods the views call.              *)
(* The record methods run in autocommit (they open no transaction), so a    *)
(* row they wrote stays written when a later statement raises;              *)
(* upload_document is @transaction.atomic and is rolled back as a whole.    *)

Reply(op, u, status, req) ==
    [NoResponse EXCEPT !.op = op, !.user = u, !.status = status, !.req = req]

\* filter(is_deleted=False) is missing
GetRecordDetailAnyState(record_id, u) ==
    IF record_id \in DOMAIN records /\ records[record_id].user = u
    THEN record_id ELSE 0

\* filter(user=user) is missing
GetRecordDetailAnyOwner(record_id, u) ==
    IF record_id \in DOMAIN records /\ ~records[record_id].is_deleted
    THEN record_id ELSE 0

\* RecordService.get_record_detail: the id of the row, 0 for None
GetRecordDetail(record_id, u) ==
    IF record_id \in ActiveRecords(u) THEN record_id ELSE 0

\* MedicalRecordSerializer.get_documents: docs.filter(is_deleted=False)
RecordDocuments(record_id) ==
    LET S == {i \in DOMAIN documents :
                 documents[i].record = record_id /\ ~documents[i].is_deleted}
    IN  Orderings(S, [i \in S |->
            RankIn(S, i, [a \in S |-> [b \in S |-> DocumentBefore(documents[a], documents[b])]])])

\* RecordService.get_user_records: sequences of ids
UserRecords(u, record_type) ==
    LET S == {i \in ActiveRecords(u) :
                 record_type # "" => records[i].record_type = record_type}
    IN  Orderings(S, [i \in S |->
            RankIn(S, i, [a \in S |-> [b \in S |-> ListBefore(records[a], records[b])]])])

RECURSIVE NestedDocuments(_)
\* MedicalRecordSerializer(many=True): the documents field of each listed record
NestedDocuments(rs) ==
    IF rs = <<>> THEN {<<>>}
    ELSE {a \o b : a \in RecordDocuments(Head(rs)), b \in NestedDocuments(Tail(rs))}

\* RecordService.get_user_documents: sequences of ids
UserDocuments(u) ==
    LET S == ActiveDocuments(u)
    IN  Orderings(S, [i \in S |->
            RankIn(S, i, [a \in S |-> [b \in S |-> DocumentBefore(documents[a], documents[b])]])])

\* GET /records?type=
MedicalRecordListCreateView_get(u, record_type) ==
    /\ \E rs \in UserRecords(u, record_type) :
           \E ds \in NestedDocuments(rs) :
               response' = [Reply("list", u, 200, <<>>)
                                EXCEPT !.rows = rs, !.docs = ds]
    /\ UNCHANGED <<records, documents, audit, now, db, triage, call, failures>>

\* POST /records: RecordService.create_record
MedicalRecordListCreateView_create(u, in, sink) ==
    LET id == Len(records) + 1
        req == <<>>
    IN  /\ ValidCreate(in) => Len(records) < MaxRecords /\ SinkCan(sink)
        /\ IF ~ValidCreate(in)
           THEN /\ response' = Reply("create", u, 400, req)
                /\ UNCHANGED <<records, audit, failures>>
           ELSE /\ records' = Append(records, NewRecord(u, in, now))
                /\ IF sink = "logged"
                   THEN /\ audit' = LogAction(u, "CREATE", "MedicalRecord", id,
                               [record_type |-> in.record_type, title |-> in.title])
                        /\ response' = [Reply("create", u, 201, req)
                                            EXCEPT !.rows = <<id>>]
                        /\ UNCHANGED failures
                   ELSE /\ audit' = audit
                        /\ failures' = failures + 1
                        /\ response' = Reply("create", u, 500, req)
        /\ now' = IF ValidCreate(in) THEN now + 1 ELSE now
        /\ UNCHANGED <<documents, db, triage, call>>

\* GET /records/<id>
MedicalRecordDetailView_get(u, record_id) ==
    LET record == GetRecordDetail(record_id, u)
        req == record_id
    IN  /\ IF record = 0
           THEN response' = Reply("get", u, 404, req)
           ELSE \E ds \in RecordDocuments(record) :
                    response' = [Reply("get", u, 200, req)
                                     EXCEPT !.rows = <<record>>, !.docs = ds]
        /\ UNCHANGED <<records, documents, audit, now, db, triage, call, failures>>

\* PATCH /records/<id>: RecordService.update_record
MedicalRecordDetailView_patch(u, record_id, data, sink) ==
    LET record == GetRecordDetail(record_id, u)
        req == record_id
        updates == ValidatedData(data)
    IN  /\ record # 0 /\ ValidUpdate(data) => SinkCan(sink)
        /\ IF record = 0
           THEN /\ response' = Reply("patch", u, 404, req)
                /\ UNCHANGED <<records, audit, failures>>
           ELSE IF ~ValidUpdate(data)
           THEN /\ response' = Reply("patch", u, 400, req)
                /\ UNCHANGED <<records, audit, failures>>
           ELSE /\ records' = [records EXCEPT ![record] =
                       [SetFields(@, updates, 1) EXCEPT !.updated_by = u]]
                /\ IF sink = "logged"
                   THEN /\ audit' = LogAction(u, "UPDATE", "MedicalRecord", record,
                                              Changed(updates, 1))
                        /\ \E ds \in RecordDocuments(record) :
                               response' = [Reply("patch", u, 200, req)
                                   EXCEPT !.rows = <<record>>, !.docs = ds]
                        /\ UNCHANGED failures
                   ELSE /\ audit' = audit
                        /\ failures' = failures + 1
                        /\ response' = Reply("patch", u, 500, req)
        /\ UNCHANGED <<documents, now, db, triage, call>>

\* DELETE /records/<id>: RecordService.soft_delete_record
MedicalRecordDetailView_delete(u, record_id, sink) ==
    LET record == GetRecordDetail(record_id, u)
        req == record_id
    IN  /\ record # 0 => SinkCan(sink)
        /\ IF record = 0
           THEN /\ response' = Reply("delete", u, 404, req)
                /\ UNCHANGED <<records, audit, failures>>
           ELSE /\ records' = [records EXCEPT ![record].is_deleted = TRUE]
                /\ IF sink = "logged"
                   THEN /\ audit' = LogAction(u, "DELETE", "MedicalRecord", record,
                                              <<>>)
                        /\ response' = Reply("delete", u, 204, req)
                        /\ UNCHANGED failures
                   ELSE /\ audit' = audit
                        /\ failures' = failures + 1
                        /\ response' = Reply("delete", u, 500, req)
        /\ UNCHANGED <<documents, now, db, triage, call>>

\* request.FILES.get("file") is None
NoFile == [name |-> "", size |-> 0, parse |-> "none", pages |-> <<>>]

\* the payload is as large as the limit or larger
TooLargeInclusive(file) == file.size >= MaxUploadBytes

\* if file.size > 20 * 1024 * 1024
TooLarge(file) == file.size > MaxUploadBytes

\* UploadDocumentSerializer.is_valid
ValidUpload(document_type) == document_type \in DocumentTypes

\* POST /documents: RecordService.upload_document; record_id 0 is no record_id
MedicalDocumentUploadView_post(u, file, document_type, record_id, sink) ==
    LET id == Len(documents) + 1
        req == file
        record == IF record_id # 0 THEN GetRecordDetail(record_id, u) ELSE 0
        text == ExtractedText(file)
        rejected == file = NoFile \/ TooLarge(file)
                        \/ ~ValidUpload(document_type)
    IN  /\ ~rejected => Len(documents) < MaxDocuments /\ SinkCan(sink)
        /\ IF rejected
           THEN /\ response' = Reply("upload", u, 400, req)
                /\ UNCHANGED <<documents, audit, failures>>
           ELSE IF text.raised
           THEN /\ response' = Reply("upload", u, 500, req)
                /\ UNCHANGED <<documents, audit, failures>>
           ELSE IF sink = "raised"
           THEN /\ response' = Reply("upload", u, 500, req)
                /\ failures' = failures + 1
                /\ UNCHANGED <<documents, audit>>
           ELSE /\ UNCHANGED failures
                /\ documents' = Append(documents,
                       NewDocument(u, record, file, document_type, text.value, now))
                /\ audit' = LogAction(u, "CREATE", "MedicalDocument", id,
                       [filename |-> file.name, document_type |-> document_type,
                        extracted_length |-> Len(text.value)])
                /\ response' = [Reply("upload", u, 201, req) EXCEPT !.docs = <<id>>]
        /\ now' = IF rejected \/ text.raised \/ sink = "raised" THEN now ELSE now + 1
        /\ UNCHANGED <<records, db, triage, call>>

\* GET /documents
MedicalDocumentListView_get(u) ==
    /\ \E ds \in UserDocuments(u) :
           response' = [Reply("documents", u, 200, <<>>) EXCEPT !.docs = ds]
    /\ UNCHANGED <<records, documents, audit, now, db, triage, call, failures>>

\* The soft-delete flag of a document is set outside RecordService.
DocumentSoftDeleted(d) ==
    /\ d \in DOMAIN documents
    /\ ~documents[d].is_deleted
    /\ documents' = [documents EXCEPT ![d].is_deleted = TRUE]
    /\ UNCHANGED <<records, audit, now, db, triage, call, failures, response>>

----------------------------------------------------------------------------
(* Spec: the service under requests of two users. *)

D1 == [y |-> 2023, m |-> 12, d |-> 31]
D2 == [y |-> 2024, m |-> 1, d |-> 5]

CreateInputs ==
    {[record_type |-> "CONDITION", title |-> "Asthma", description |-> "wheeze",
      date_recorded |-> D2, provider |-> "", status |-> "CHRONIC",
      severity |-> "MILD", data |-> <<>>],
     [record_type |-> "ALLERGY", title |-> "Peanuts", description |-> "",
      date_recorded |-> NoDate, provider |-> "Dr A", status |-> "ACTIVE",
      severity |-> "", data |-> <<[key |-> "reaction", val |-> "hives"]>>],
     [record_type |-> "SYMPTOM", title |-> "Cough", description |-> "",
      date_recorded |-> NoDate, provider |-> "", status |-> "ACTIVE",
      severity |-> "", data |-> <<>>]}

PatchInputs ==
    {[record_type |-> "CONDITION", date_recorded |-> D2, is_deleted |-> TRUE],
     [status |-> "CURED"]}

Files ==
    {[name |-> "scan.pdf", size |-> 512, parse |-> "corrupt", pages |-> <<>>],
     [name |-> "Lab.PDF", size |-> MaxUploadBytes, parse |-> "ok",
      pages |-> <<" Hb 13\n", "", "ok">>],
     [name |-> "notes.txt", size |-> 512, parse |-> "ok", pages |-> <<"memo">>],
     [name |-> "huge.pdf", size |-> MaxUploadBytes + 1, parse |-> "ok",
      pages |-> <<"x">>],
     NoFile}

Init ==
    /\ records = <<>>
    /\ documents = <<>>
    /\ audit = <<>>
    /\ now = 0
    /\ db = "postgresql"
    /\ failures = 0
    /\ response = NoResponse
    /\ triage = NoTriage
    /\ call = NoCall

Next ==
    \/ \E u \in Users, in \in CreateInputs, sink \in SinkOutcomes :
           MedicalRecordListCreateView_create(u, in, sink)
    \/ \E u \in Users, t \in {"", "CONDITION"} :
           MedicalRecordListCreateView_get(u, t)
    \/ \E u \in Users, id \in 1..MaxRecords : MedicalRecordDetailView_get(u, id)
    \/ \E u \in Users, id \in 1..MaxRecords, data \in PatchInputs,
          sink \in SinkOutcomes : MedicalRecordDetailView_patch(u, id, data, sink)
    \/ \E u \in Users, id \in 1..MaxRecords, sink \in SinkOutcomes :
           MedicalRecordDetailView_delete(u, id, sink)
    \/ \E u \in Users, file \in Files, id \in 0..1, sink \in SinkOutcomes :
           MedicalDocumentUploadView_post(u, file, "LAB_REPORT", id, sink)
    \/ \E u \in Users : MedicalDocumentListView_get(u)
    \/ \E u \in Users : MedicalContextView_get(u)
    \/ \E d \in 1..MaxDocuments : DocumentSoftDeleted(d)

Spec == Init /\ [][Next]_vars

----------------------------------------------------------------------------
(* SpecContext: get_patient_medical_context over stored snapshots of one    *)
(* user's records and documents.                                            *)

\* n characters in which every position can be told from its neighbours
Text(n) == Take(Rep("0123456789", n \div 10 + 1), n)

CtxRecordFlavours ==
    {[record_type |-> ty, date_recorded |-> dt] :
        ty \in {"CONDITION", "MEDICATION", "ALLERGY"}, dt \in {NoDate, D1, D2}}

\* "plain": short fields; "long": fields longer than the caps
CtxShapes == {"plain", "long"}

\* record k of a snapshot: its title and description name it
CtxRecord(fl, k, shape) ==
    LET name == "R" \o ToString(k)
    IN  NewRecord("u1",
            [record_type |-> fl.record_type, title |-> name,
             description |->
                 IF shape = "long" THEN name \o " " \o Text(DetailsCap + 7)
                 ELSE IF k % 2 = 0 THEN "note " \o name ELSE "",
             date_recorded |-> fl.date_recorded, provider |-> "",
             status |-> "ACTIVE", severity |-> IF k % 2 = 1 THEN "MILD" ELSE "",
             data |-> IF shape = "long" /\ k = 2
                      THEN <<[key |-> "report", val |-> Text(ContextCap)]>>
                      ELSE <<>>],
            k)

CtxRecordTable(fls, shape) == [k \in 1..Len(fls) |-> CtxRecord(fls[k], k, shape)]

\* "S": active with text, "E": active without text, "D": soft-deleted
CtxDocumentFlavours == {"S", "E", "D"}

\* "distinct": every created_at differs; "pairs": documents 2k-1 and 2k share one
CtxStamps == {"distinct", "pairs"}

CtxDocument(fl, k, shape, stamps) ==
    LET name == "f" \o ToString(k) \o ".pdf"
        text == IF fl = "E" THEN ""
                ELSE IF shape = "long"
                THEN name \o " " \o Text(DocumentTextCap + 7)
                ELSE "text of " \o name
        doc == NewDocument("u1", 0, [name |-> name, size |-> 512], "LAB_REPORT",
                           text, IF stamps = "pairs" THEN (k + 1) \div 2 ELSE k)
    IN  [doc EXCEPT !.is_deleted = (fl = "D")]

CtxDocumentTable(fls, shape, stamps) ==
    [k \in 1..Len(fls) |-> CtxDocument(fls[k], k, shape, stamps)]

InitContext ==
    /\ audit = <<>>
    /\ now = 0
    /\ failures = 0
    /\ response = NoResponse
    /\ triage = NoTriage
    /\ call = NoCall
    /\ \E shape \in CtxShapes :
        \/ /\ db \in Databases
           /\ \E fls \in SeqsUpTo(CtxRecordFlavours, MaxCtxRecords) :
                  records = CtxRecordTable(fls, shape)
           /\ \E fls \in {<<>>, <<"S">>} :
                  documents = CtxDocumentTable(fls, shape, "distinct")
        \/ /\ db = "sqlite"
           /\ records = CtxRecordTable(
                            <<[record_type |-> "CONDITION", date_recorded |-> D2]>>,
                            shape)
           /\ \E fls \in SeqsUpTo(CtxDocumentFlavours, MaxCtxDocuments),
                 stamps \in CtxStamps :
                  documents = CtxDocumentTable(fls, shape, stamps)

NextContext == \E u \in Users : MedicalContextView_get(u)

SpecContext == InitContext /\ [][NextContext]_vars

----------------------------------------------------------------------------
(* Claims. *)

RECURSIVE Offset(_, _)
\* the number of characters before line k of the newline-joined lines s
Offset(s, k) == IF k = 1 THEN 0 ELSE Offset(s, k - 1) + Len(s[k - 1]) + 1

\* the length of the newline-joined lines s
JoinedLen(s) == IF s = <<>> THEN 0 ELSE Offset(s, Len(s)) + Len(s[Len(s)])

\* line k of the emitted lines stands in the returned string, whole, at its place
InBody(k) ==
    LET s == response.sections
        off == Offset(s, k)
    IN  /\ off + Len(s[k]) <= Len(response.body)
        /\ SubSeq(response.body, off + 1, off + Len(s[k])) = s[k]

\* C1: the returned context has at most 10,000 characters and is the first
\* 10,000 characters of the emitted lines joined by newlines: every line stands
\* at its offset after a newline, as far as the cap lets it, and the string ends
\* where the joined lines or the cap end.
C1_ContextCapped ==
    response.op = "context" =>
        LET s == response.sections
            b == response.body
        IN  /\ Len(b) <= 10000
            /\ Len(b) = Min(JoinedLen(s), 10000)
            /\ \A k \in DOMAIN s :
                   LET off == Offset(s, k)
                   IN  /\ k > 1 /\ off <= Len(b) => SubSeq(b, off, off) = "\n"
                       /\ off < Len(b) =>
                              SubSeq(b, off + 1, Min(off + Len(s[k]), Len(b)))
                                  = Take(s[k], Len(b) - off)

\* a context of 10,000 characters whose last line is cut mid-way
C1_Witness ==
    /\ response.op = "context"
    /\ Len(response.body) = 10000
    /\ \E k \in DOMAIN response.sections :
           /\ Offset(response.sections, k) < 10000
           /\ Offset(response.sections, k) + Len(response.sections[k]) > 10000

\* C3: two invocations of get_patient_medical_context over the same stored
\* records and documents return the same string.
C3_Deterministic ==
    [][(/\ response.op = "context"
        /\ response'.op = "context"
        /\ response'.user = response.user
        /\ records' = records
        /\ documents' = documents) => response'.body = response.body]_vars

Index(seq, x) == CHOOSE i \in DOMAIN seq : seq[i] = x

\* the ids of the sequence ids are the set S, each once
Enumerates(ids, S) ==
    {ids[k] : k \in DOMAIN ids} = S /\ Len(ids) = Cardinality(S)

\* C4 as claimed: records are emitted by category in the order of the category
\* enumeration, within a category by occurrence date descending, undated
\* records after dated ones.
C4_EnumerationOrder ==
    response.op = "context" =>
        \A i, j \in DOMAIN response.rows :
            i < j =>
                LET a == records[response.rows[i]]
                    b == records[response.rows[j]]
                IN  /\ Index(RecordType, a.record_type)
                           <= Index(RecordType, b.record_type)
                    /\ a.record_type = b.record_type =>
                           /\ a.date_recorded = NoDate => b.date_recorded = NoDate
                           /\ a.date_recorded # NoDate /\ b.date_recorded # NoDate
                                  => ~DateLess(a.date_recorded, b.date_recorded)

AlphabeticalTypes ==
    <<"ALLERGY", "CONDITION", "FAMILY_HISTORY", "IMMUNIZATION", "LAB_RESULT",
      "MEDICATION", "OTHER", "PROCEDURE", "VITAL">>

\* C4 amended: the active records of the user are emitted, each once, by
\* category in the ascending order of the stored category value (alphabetical:
\* ALLERGY before CONDITION before MEDICATION), within a category the dated
\* records by occurrence date descending, and the undated records of a category
\* together at one end of it: after the dated ones on a database that sorts
\* NULL lowest, before them on one that sorts NULL highest.
C4_ValueOrder ==
    response.op = "context" =>
        /\ Enumerates(response.rows, ActiveRecords(response.user))
        /\ \A i, j \in DOMAIN response.rows :
               i < j =>
                   LET a == records[response.rows[i]]
                       b == records[response.rows[j]]
                   IN  /\ Index(AlphabeticalTypes, a.record_type)
                              <= Index(AlphabeticalTypes, b.record_type)
                       /\ a.record_type = b.record_type =>
                              /\ a.date_recorded # NoDate /\ b.date_recorded # NoDate
                                     => ~DateLess(a.date_recorded, b.date_recorded)
                              /\ db = "sqlite" =>
                                     (a.date_recorded = NoDate
                                          => b.date_recorded = NoDate)
                              /\ db = "postgresql" =>
                                     (b.date_recorded = NoDate
                                          => a.date_recorded = NoDate)

\* three records were emitted, an ALLERGY one before a CONDITION one, and a
\* dated and an undated record of one category
C4_Witness ==
    /\ response.op = "context"
    /\ Len(response.rows) = 3
    /\ \E i, j \in DOMAIN response.rows :
           /\ i < j
           /\ records[response.rows[i]].record_type = "ALLERGY"
           /\ records[response.rows[j]].record_type = "CONDITION"
    /\ \E i, j \in DOMAIN response.rows :
           /\ records[response.rows[i]].record_type
                  = records[response.rows[j]].record_type
           /\ records[response.rows[i]].date_recorded = NoDate
           /\ records[response.rows[j]].date_recorded # NoDate

\* the emitted records and documents whose text is longer than its cap
LongRecords ==
    {k \in DOMAIN response.rows :
        Len(records[response.rows[k]].description) > 500}

LongDocuments ==
    {k \in DOMAIN response.docs :
        Len(documents[response.docs[k]].extracted_text) > 2000}

\* the emitted line after the line `first` is `second`; the index of `second`
Following(first, second) ==
    {j \in 2..Len(response.sections) :
        response.sections[j - 1] = first /\ response.sections[j] = second}

TruncatedDetails(r) == "  Details: " \o SubSeq(r.description, 1, 500)

TruncatedText(doc) == SubSeq(doc.extracted_text, 1, 2000)

\* C5 as claimed: the output contains, for every emitted record with a
\* description longer than 500 characters, its Details line with exactly the
\* first 500 characters, and for every emitted document with a text longer
\* than 2,000 characters exactly the first 2,000 characters of it.
C5_TruncatedInOutput ==
    response.op = "context" =>
        /\ \A k \in LongRecords :
               LET r == records[response.rows[k]]
               IN  \E j \in Following(SummaryLine(r), TruncatedDetails(r)) :
                       InBody(j)
        /\ \A k \in LongDocuments :
               LET doc == documents[response.docs[k]]
               IN  \E j \in Following(DocumentHeading(doc), TruncatedText(doc)) :
                       InBody(j)

\* C5 amended: the emitted lines hold, right after the record's summary line,
\* the Details line with exactly the first 500 characters of a longer
\* description, and right after the document's subheading exactly the first
\* 2,000 characters of a longer text; such a line stands whole in the returned
\* string when it ends within the first 10,000 characters of the joined lines,
\* and is cut short or missing from it otherwise.
C5_TruncatedInLines ==
    response.op = "context" =>
        /\ \A k \in LongRecords :
               LET r == records[response.rows[k]]
               IN  \E j \in Following(SummaryLine(r), TruncatedDetails(r)) :
                       /\ Len(response.sections[j]) = 500 + Len("  Details: ")
                       /\ InBody(j) <=>
                              Offset(response.sections, j) + 500 + Len("  Details: ")
                                  <= 10000
        /\ \A k \in LongDocuments :
               LET doc == documents[response.docs[k]]
               IN  \E j \in Following(DocumentHeading(doc), TruncatedText(doc)) :
                       /\ Len(response.sections[j]) = 2000
                       /\ InBody(j) <=>
                              Offset(response.sections, j) + 2000 <= 10000

\* a context with a long description and a long document text, one of them
\* whole in the returned string and one not
C5_Witness ==
    /\ response.op = "context"
    /\ LongRecords # {}
    /\ LongDocuments # {}
    /\ \E j \in DOMAIN response.sections :
           Len(response.sections[j]) = 2000 /\ InBody(j)
    /\ \E j \in DOMAIN response.sections :
           Len(response.sections[j]) = 2000 /\ ~InBody(j)

IsDocumentHeading(l) == Len(l) >= 5 /\ Take(l, 5) = "\n### "

\* the user's active documents with a non-empty extracted text
Eligible(u) ==
    {i \in DOMAIN documents :
        /\ documents[i].user = u
        /\ ~documents[i].is_deleted
        /\ documents[i].extracted_text # ""}

IsRecordHeading(l) ==
    Len(l) >= 4 /\ Take(l, 4) = "\n## " /\ l # DocumentsHeading

IsSummaryLine(l) == Len(l) >= 2 /\ Take(l, 2) = "- "

IsOutlineLine(l) == IsRecordHeading(l) \/ IsSummaryLine(l)

\* record k of recs starts a contiguous run of equal category
StartsRun(recs, k) ==
    k = 1 \/ recs[k].record_type # recs[k - 1].record_type

RECURSIVE Outline(_, _)
\* one heading per run start, each before its record's summary line
Outline(recs, n) ==
    IF n = 0 THEN <<>>
    ELSE Outline(recs, n - 1)
         \o (IF StartsRun(recs, n)
             THEN <<"\n## " \o RecordTypeDisplay(recs[n].record_type)>>
             ELSE <<>>)
         \o <<"- " \o recs[n].title \o " (Status: " \o recs[n].status \o ")">>

\* C7: a category heading is emitted exactly when a record's category differs
\* from that of the record iterated just before it (or it is the first record):
\* the headings and summary lines of the emitted list are, in order, one heading
\* per contiguous run of equal category followed by the run's records, so the
\* number of headings is the number of runs and a category that comes back
\* after another one gets its heading again.
C7_HeadingPerRun ==
    response.op = "context" =>
        LET recs == Rows(records, response.rows)
        IN  /\ SelectSeq(response.sections, IsOutlineLine)
                   = Outline(recs, Len(recs))
            /\ Len(SelectSeq(response.sections, IsRecordHeading))
                   = Cardinality({k \in 1..Len(recs) : StartsRun(recs, k)})

\* MEDICATION, ALLERGY, MEDICATION was assembled with two Medication headings
C7_Witness ==
    /\ response.op = "context"
    /\ [k \in 1..Len(response.rows) |-> records[response.rows[k]].record_type]
           = <<"MEDICATION", "ALLERGY", "MEDICATION">>
    /\ SelectSeq(response.sections, IsRecordHeading)
           = <<"\n## Medication", "\n## Allergy", "\n## Medication">>


\* C2: when the user has no active record the returned context is the empty
\* string, whatever active documents with a text the user has.
C2_EmptyWithoutRecords ==
    response.op = "context" /\ ActiveRecords(response.user) = {}
        => response.body = ""

\* a context was asked for by a user without an active record whose uploaded
\* document has a text
C2_Witness ==
    /\ response.op = "context"
    /\ response.body = ""
    /\ ActiveRecords(response.user) = {}
    /\ \E d \in ActiveDocuments(response.user) :
           documents[d].extracted_text = "Hb 13\n\nok"

ReadOps == {"context", "list", "get", "documents"}

\* the step answers a read request
ReadStep ==
    /\ response'.op \in ReadOps
    /\ records' = records
    /\ documents' = documents

\* C8: whatever was created, updated, soft-deleted and uploaded before, a read
\* (context, record list, record detail, document list) returns no soft-deleted
\* record and no soft-deleted document, the detail of a soft-deleted record is
\* not found, and the context has no line of a soft-deleted record.
C8_NoDeletedInReads ==
    [][ReadStep =>
          /\ \A k \in DOMAIN response'.rows :
                 ~records[response'.rows[k]].is_deleted
          /\ \A k \in DOMAIN response'.docs :
                 ~documents[response'.docs[k]].is_deleted
          /\ response'.op = "context" =>
                 \A i \in DOMAIN records :
                     (/\ records[i].is_deleted
                      /\ \A j \in ActiveRecords(response'.user) :
                             records[j].title # records[i].title)
                         => \A k \in DOMAIN response'.sections :
                                response'.sections[k] # SummaryLine(records[i])
       ]_vars

\* the record list of a user with a soft-deleted record and an active one
C8_Witness ==
    /\ response.op = "list"
    /\ response.status = 200
    /\ response.rows # <<>>
    /\ \E i \in DOMAIN records :
           records[i].user = response.user /\ records[i].is_deleted

\* the audit events of one action on one entity
Events(action, resource_type, resource_id) ==
    {k \in DOMAIN audit :
        /\ audit[k].action = action
        /\ audit[k].resource_type = resource_type
        /\ audit[k].resource_id = resource_id}

\* C9: mutation and audit emission are atomic for every operation: in no
\* reachable state is there a persisted mutation without its audit event or an
\* audit event without its mutation.
C9_MutationsAudited ==
    /\ \A i \in DOMAIN records :
           /\ Events("CREATE", "MedicalRecord", i) # {}
           /\ records[i].is_deleted => Events("DELETE", "MedicalRecord", i) # {}
           /\ records[i].updated_by # "" => Events("UPDATE", "MedicalRecord", i) # {}
    /\ \A d \in DOMAIN documents :
           Events("CREATE", "MedicalDocument", d) # {}
    /\ \A k \in DOMAIN audit :
           IF audit[k].resource_type = "MedicalRecord"
           THEN /\ audit[k].resource_id \in DOMAIN records
                /\ audit[k].action = "DELETE"
                       => records[audit[k].resource_id].is_deleted
                /\ audit[k].action = "UPDATE"
                       => records[audit[k].resource_id].updated_by # ""
           ELSE audit[k].resource_id \in DOMAIN documents

\* the step answers an upload request
UploadStep ==
    /\ response'.op = "upload"
    /\ documents' = documents \/ Len(documents') = Len(documents) + 1

\* C10: the extractor does not raise: for an accepted payload named *.pdf
\* whose parsing fails it returns the empty string, and the upload creates the
\* document with an empty extracted text and emits its audit event with the
\* length 0, unless the audit sink itself refuses the event.
C10_ExtractionNeverRaises ==
    [][(/\ UploadStep
        /\ response'.req # NoFile
        /\ response'.req.parse = "corrupt"
        /\ response'.status # 400) =>
          LET file == response'.req
              id == Len(documents) + 1
          IN  /\ ExtractPdfText(file) = Returned("")
              /\ IF failures' = failures
                 THEN /\ response'.status = 201
                      /\ Len(documents') = id
                      /\ documents'[id].original_filename = file.name
                      /\ documents'[id].extracted_text = ""
                      /\ ~documents'[id].is_deleted
                      /\ Len(audit') = Len(audit) + 1
                      /\ audit'[Len(audit')].action = "CREATE"
                      /\ audit'[Len(audit')].resource_type = "MedicalDocument"
                      /\ audit'[Len(audit')].resource_id = id
                      /\ audit'[Len(audit')].changes.extracted_length = 0
                 ELSE /\ response'.status = 500
                      /\ documents' = documents
                      /\ audit' = audit
       ]_vars

\* a corrupt scan.pdf was uploaded: its document is stored without text and
\* its audit event records the length 0
C10_Witness ==
    /\ response.op = "upload"
    /\ response.status = 201
    /\ response.req.parse = "corrupt"
    /\ documents[response.docs[1]].original_filename = "scan.pdf"
    /\ documents[response.docs[1]].extracted_text = ""
    /\ audit[Len(audit)].resource_type = "MedicalDocument"
    /\ audit[Len(audit)].changes.extracted_length = 0


----------------------------------------------------------------------------
(* SpecExtract: uploads of payloads of up to MaxPages pages under several   *)
(* filenames.                                                               *)

\* what page.extract_text() returns for a page
PageTexts == {"", "  \n", "Hb 13", " ok\t", Text(ExtractCap - 3)}

ExtractNames == {"a.pdf", "B.PdF", "c.pdf.txt", "dpdf", ".PDF", "e.pdf "}

ExtractFiles ==
    {[name |-> nm, size |-> 512, parse |-> "ok", pages |-> <<"Hb 13">>] :
        nm \in ExtractNames}
    \cup {[name |-> "scan.pdf", size |-> 512, parse |-> "ok", pages |-> ps] :
             ps \in SeqsUpTo(PageTexts, MaxPages)}

InitExtract ==
    /\ records = <<>>
    /\ documents = <<>>
    /\ audit = <<>>
    /\ now = 0
    /\ db = "sqlite"
    /\ failures = 0
    /\ response = NoResponse
    /\ triage = NoTriage
    /\ call = NoCall

NextExtract ==
    \E file \in ExtractFiles, sink \in SinkOutcomes :
        MedicalDocumentUploadView_post("u1", file, "LAB_REPORT", 0, sink)

SpecExtract == InitExtract /\ [][NextExtract]_vars

\* the upload just answered stored a document
Stored == response.op = "upload" /\ response.status = 201

\* the document the upload just answered stored
StoredDocument == documents[response.docs[1]]

\* the page texts of the uploaded payload joined by blank lines, uncut
JoinedPages == Join("\n\n", TextParts(response.req.pages))

\* C11: a stored document's extracted text has at most 50,000 characters, and
\* when the joined page text of the payload is longer the text stored is
\* exactly its first 50,000 characters.
C11_ExtractCapped ==
    /\ \A d \in DOMAIN documents : Len(documents[d].extracted_text) <= 50000
    /\ Stored /\ response.req.name = "scan.pdf" /\ Len(JoinedPages) > 50000 =>
           /\ Len(StoredDocument.extracted_text) = 50000
           /\ StoredDocument.extracted_text = SubSeq(JoinedPages, 1, 50000)

\* a payload whose joined page text is longer than 50,000 characters was stored
C11_Witness ==
    /\ Stored
    /\ Len(JoinedPages) > 50000
    /\ Len(StoredDocument.extracted_text) = 50000

PdfSuffixes == {".pdf", ".pdF", ".pDf", ".pDF", ".Pdf", ".PdF", ".PDf", ".PDF"}

HasPdfSuffix(name) ==
    Len(name) >= 4 /\ SubSeq(name, Len(name) - 3, Len(name)) \in PdfSuffixes

\* C13: the text of a payload is extracted only when its filename ends with
\* ".pdf" in any mix of cases; under every other filename the document is
\* stored with an empty extracted text, whatever the payload holds.
C13_SuffixDecides ==
    Stored =>
        IF HasPdfSuffix(response.req.name)
        THEN response.req.pages = <<"Hb 13">>
                 => StoredDocument.extracted_text = "Hb 13"
        ELSE StoredDocument.extracted_text = ""

\* a payload with a page of text was stored under c.pdf.txt without text
C13_Witness ==
    /\ Stored
    /\ response.req.name = "c.pdf.txt"
    /\ response.req.pages = <<"Hb 13">>
    /\ StoredDocument.extracted_text = ""

\* character k of t is not whitespace
Inked(t, k) == SubSeq(t, k, k) \notin Whitespace

\* a page text without its leading and trailing whitespace, by position
Stripped(t) ==
    IF \A k \in 1..Len(t) : ~Inked(t, k) THEN ""
    ELSE SubSeq(t,
             CHOOSE k \in 1..Len(t) :
                 Inked(t, k) /\ \A j \in 1..(k - 1) : ~Inked(t, j),
             CHOOSE k \in 1..Len(t) :
                 Inked(t, k) /\ \A j \in (k + 1)..Len(t) : ~Inked(t, j))

NonEmpty(t) == t # ""

\* C17: the extractor strips each page text, leaves out the pages whose text
\* is empty or only whitespace, and joins the remaining texts by a blank line.
C17_JoinsNonEmptyUnits ==
    Stored /\ response.req.name = "scan.pdf" =>
        LET pages == response.req.pages
            units == SelectSeq([k \in DOMAIN pages |-> Stripped(pages[k])],
                               NonEmpty)
        IN  StoredDocument.extracted_text
                = SubSeq(Join("\n\n", units), 1,
                         Min(50000, Len(Join("\n\n", units))))


\* C12: an upload whose payload is larger than 20,971,520 bytes is rejected
\* with a validation error and writes no document and no audit event; a payload
\* of exactly 20,971,520 bytes is accepted and stored.
C12_SizeLimit ==
    [][(UploadStep /\ response'.req # NoFile) =>
          /\ response'.req.size > 20971520 =>
                 /\ response'.status = 400
                 /\ documents' = documents
                 /\ audit' = audit
                 /\ failures' = failures
          /\ response'.req.size = 20971520 =>
                 /\ response'.status # 400
                 /\ failures' = failures =>
                        /\ response'.status = 201
                        /\ Len(documents') = Len(documents) + 1
                        /\ documents'[Len(documents')].file_size = 20971520
       ]_vars

\* a payload of 20,971,520 bytes is stored and one of 20,971,521 bytes was
\* just rejected
C12_Witness ==
    /\ response.op = "upload"
    /\ response.status = 400
    /\ response.req # NoFile
    /\ response.req.size = 20971521
    /\ \E d \in DOMAIN documents : documents[d].file_size = 20971520

\* the fields update_record may set, and the other fields of a record
Settable == {"title", "description", "record_type", "date_recorded",
             "provider", "status", "severity", "data"}

Frozen == {"user", "is_deleted", "created_at", "created_by"}

\* str() of a new value
Shown(f, v) ==
    IF f = "date_recorded"
    THEN (IF v = NoDate THEN "None" ELSE "2024-01-05")
    ELSE v

----------------------------------------------------------------------------
(* backend/apps/triage/api/views.py: sessions, saved results and uploaded   *)
(* images. A session id is the index of its row; 0 is a missing id.         *)

\* TriageSession.objects.filter(id=session_id, user=request.user).first()
FindSession(session_id, u) ==
    IF /\ session_id \in DOMAIN triage.sessions
       /\ triage.sessions[session_id].user = u
    THEN session_id ELSE 0

\* the session has a TriageResult (session is a OneToOneField)
HasResult(session_id) ==
    \E k \in DOMAIN triage.results : triage.results[k].session = session_id

\* TriageService.create_session
CreateSession(u) ==
    [triage EXCEPT !.sessions = Append(@, [user |-> u, status |-> "PENDING"])]

\* TriageService.save_result
SaveResult(session_id, u) ==
    [triage EXCEPT !.results = Append(@, [session |-> session_id, created_by |-> u])]

\* TriageService.save_image_analysis
SaveImageAnalysis(session_id, image) ==
    [triage EXCEPT !.images =
        Append(@, [session |-> session_id, original_filename |-> image.name])]

\* POST /triage/sessions
TriageSessionListCreateView_create(u) ==
    /\ Len(triage.sessions) < MaxSessions
    /\ triage' = CreateSession(u)
    /\ response' = Reply("session", u, 201, Len(triage.sessions) + 1)
    /\ UNCHANGED <<records, documents, audit, now, db, failures, call>>

\* POST /triage/results; valid is SaveResultSerializer.is_valid
TriageResultCreateView_post(u, session_id, valid) ==
    LET session == FindSession(session_id, u)
    IN  /\ valid /\ session # 0 => ~HasResult(session)
        /\ IF ~valid
           THEN /\ response' = Reply("result", u, 400, session_id)
                /\ UNCHANGED triage
           ELSE IF session = 0
           THEN /\ response' = Reply("result", u, 404, session_id)
                /\ UNCHANGED triage
           ELSE /\ triage' = SaveResult(session, u)
                /\ response' = Reply("result", u, 201, session_id)
        /\ UNCHANGED <<records, documents, audit, now, db, failures, call>>

\* POST /triage/images
ImageUploadView_post(u, session_id, image) ==
    LET session == FindSession(session_id, u)
        missing == session_id = 0 \/ image = NoFile
    IN  /\ ~missing /\ session # 0 => Len(triage.images) < MaxImages
        /\ IF missing
           THEN /\ response' = Reply("image", u, 400, session_id)
                /\ UNCHANGED triage
           ELSE IF session = 0
           THEN /\ response' = Reply("image", u, 404, session_id)
                /\ UNCHANGED triage
           ELSE /\ triage' = SaveImageAnalysis(session, image)
                /\ response' = Reply("image", u, 201, session_id)
        /\ UNCHANGED <<records, documents, audit, now, db, failures, call>>

----------------------------------------------------------------------------
(* SpecOwner: two users name records and triage sessions, their own, the    *)
(* other user's and ones that do not exist.                                 *)

OwnerInputs == {in \in CreateInputs : in.title = "Asthma"}

Images == {[name |-> "rash.png", size |-> 512, parse |-> "none", pages |-> <<>>],
           NoFile}

InitOwner ==
    /\ records = <<>>
    /\ documents = <<>>
    /\ audit = <<>>
    /\ now = 0
    /\ db = "postgresql"
    /\ failures = 0
    /\ response = NoResponse
    /\ triage = NoTriage
    /\ call = NoCall

NextOwner ==
    \/ \E u \in Users, in \in OwnerInputs :
           MedicalRecordListCreateView_create(u, in, "logged")
    \/ \E u \in Users, id \in 1..MaxRecords : MedicalRecordDetailView_get(u, id)
    \/ \E u \in Users, id \in 1..MaxRecords, data \in PatchInputs :
           MedicalRecordDetailView_patch(u, id, data, "logged")
    \/ \E u \in Users, id \in 1..MaxRecords :
           MedicalRecordDetailView_delete(u, id, "logged")
    \/ \E u \in Users : TriageSessionListCreateView_create(u)
    \/ \E u \in Users, id \in 1..MaxSessions, valid \in BOOLEAN :
           TriageResultCreateView_post(u, id, valid)
    \/ \E u \in Users, id \in 0..MaxSessions, image \in Images :
           ImageUploadView_post(u, id, image)

SpecOwner == InitOwner /\ [][NextOwner]_vars

\* the record, or session, is none that the user owns: it belongs to the
\* other user or is not stored
NotOwnRecord(u, id) == id \notin DOMAIN records \/ records[id].user # u

NotOwnSession(u, id) ==
    id \notin DOMAIN triage.sessions \/ triage.sessions[id].user # u

\* the not-found reply, the same for every id
NotFound(r) ==
    /\ r.status = 404
    /\ r.rows = <<>> /\ r.docs = <<>> /\ r.sections = <<>> /\ r.body = ""

\* C16: a get, patch or delete of a record, and a save-result or image upload
\* for a session, that names an entity of the other user is answered as one
\* that names an entity that is not stored: with the same not-found reply and
\* no change of any table.
C16_NotFoundAlike ==
    [][/\ (response'.op \in {"get", "patch", "delete"}
              /\ NotOwnRecord(response'.user, response'.req)) =>
              /\ NotFound(response')
              /\ UNCHANGED <<records, documents, audit, failures, triage>>
       /\ (response'.op \in {"result", "image"}
              /\ response'.status # 400
              /\ NotOwnSession(response'.user, response'.req)) =>
              /\ NotFound(response')
              /\ UNCHANGED <<records, documents, audit, failures, triage>>
      ]_vars

\* a delete that named the other user's active record was answered not found
C16_Witness ==
    /\ response.op = "delete"
    /\ response.status = 404
    /\ response.req \in DOMAIN records
    /\ records[response.req].user # response.user
    /\ ~records[response.req].is_deleted
    /\ \E k \in DOMAIN triage.sessions : triage.sessions[k].user # response.user


\* C15: after soft_delete_record(r) every document that referenced r is as
\* active as before and its reference to r is absent.
C15_BackReferenceNulled ==
    [][(response'.op = "delete" /\ records' # records) =>
          \A d \in DOMAIN documents :
              documents[d].record = response'.req =>
                  /\ documents'[d].is_deleted = documents[d].is_deleted
                  /\ documents'[d].record = 0
      ]_vars

\* the step sets the soft-delete flag of a document
EnvStep ==
    \E d \in DOMAIN documents :
        documents'[d].is_deleted # documents[d].is_deleted

\* the user on whose entities the step acts
Actor ==
    IF EnvStep
    THEN documents[CHOOSE d \in DOMAIN documents :
                       documents'[d].is_deleted # documents[d].is_deleted].user
    ELSE response'.user

\* the rows the read queries of user a select (user = a, is_deleted = False);
\* the order of a result is computed from these rows alone
ViewOf(a) ==
    [records |-> [i \in ActiveRecords(a) |-> records[i]],
     documents |-> [d \in ActiveDocuments(a) |-> documents[d]]]

\* C18: a read for a user returns only records and documents the user owns,
\* and what the reads of a user fetch (so the context assembled from it) is
\* the same before and after every request of another user.
C18_OwnerIsolation ==
    [][/\ ReadStep =>
              /\ \A k \in DOMAIN response'.rows :
                     records[response'.rows[k]].user = response'.user
              /\ \A k \in DOMAIN response'.docs :
                     documents[response'.docs[k]].user = response'.user
       /\ \/ UNCHANGED <<records, documents>>
          \/ \A a \in Users : Actor # a => ViewOf(a)' = ViewOf(a)
      ]_vars

\* a user got a context while the other user has an active record
C18_Witness ==
    /\ response.op = "context"
    /\ response.body # ""
    /\ \E i \in DOMAIN records :
           records[i].user # response.user /\ ~records[i].is_deleted

\* the audit events about record i in the log a
EventsOf(a, i) ==
    {k \in DOMAIN a :
        a[k].resource_type = "MedicalRecord" /\ a[k].resource_id = i}

\* C20: records are never removed, and once a record is soft-deleted no request
\* clears the flag or changes a field of it, every later get, patch or delete
\* of it is answered not found, and no further audit event is logged for it.
C20_DeletionFinal ==
    [][/\ Len(records') >= Len(records)
       /\ \A i \in DOMAIN records :
              records[i].is_deleted =>
                  /\ records'[i] = records[i]
                  /\ EventsOf(audit', i) = EventsOf(audit, i)
                  /\ (/\ ~EnvStep
                      /\ response'.op \in {"get", "patch", "delete"}
                      /\ response'.req = i) => response'.status = 404
      ]_vars

\* a patch of the user's own soft-deleted record was answered not found
C20_Witness ==
    /\ response.op = "patch"
    /\ response.status = 404
    /\ response.req \in DOMAIN records
    /\ records[response.req].user = response.user
    /\ records[response.req].is_deleted

----------------------------------------------------------------------------
(* SpecRace: get_patient_medical_context query by query, while other        *)
(* requests of the same user commit between its queries. records.exists()   *)
(* (line 211) and the iteration of records (line 217) are two queries of    *)
(* the same unevaluated queryset; the documents are read after them (lines  *)
(* 239-245, taken here as one step).                                        *)

RaceFiles ==
    {[name |-> "lab.pdf", size |-> 512, parse |-> "ok", pages |-> <<"Hb 13">>]}

\* the stored documents the run starts from: none, or one uploaded earlier
RaceDocuments ==
    {<<>>,
     <<NewDocument("u1", 0, [name |-> "lab.pdf", size |-> 512], "LAB_REPORT",
                   "Hb 13", 0)>>}

InitRace ==
    /\ records = <<>>
    /\ documents \in RaceDocuments
    /\ audit = <<>>
    /\ now = Len(documents)
    /\ db = "postgresql"
    /\ failures = 0
    /\ response = NoResponse
    /\ triage = NoTriage
    /\ call = NoCall

\* lines 214-247 once records.exists() was true: the list built from the rows
\* the iterations fetched
LoopSections(recs, docs) == RecordSection(recs, NoType) \o DocumentSection(docs)

\* lines 207-212: the queryset is built and records.exists() is asked
Context_exists(u) ==
    /\ call.pc = "idle"
    /\ IF ActiveRecords(u) = {}
       THEN /\ response' = ContextResponse(u, <<>>, <<>>)
            /\ call' = call
       ELSE /\ call' = [NoCall EXCEPT !.pc = "records", !.user = u]
            /\ response' = response
    /\ UNCHANGED <<records, documents, audit, now, db, triage, failures>>

\* line 217: for r in records runs the query and fetches the rows
Context_records ==
    /\ call.pc = "records"
    /\ \E rs \in ContextRecords(call.user) :
           call' = [call EXCEPT !.pc = "documents", !.ids = rs,
                                !.rows = Rows(records, rs)]
    /\ UNCHANGED <<records, documents, audit, now, db, triage, failures,
                   response>>

\* lines 238-250: the documents are read, the sections joined and capped
Context_documents ==
    /\ call.pc = "documents"
    /\ \E ds \in ContextDocuments(call.user) :
           LET sections == LoopSections(call.rows, Rows(documents, ds))
           IN  response' = [NoResponse EXCEPT
                   !.op = "context", !.user = call.user, !.status = 200,
                   !.rows = call.ids, !.docs = ds, !.sections = sections,
                   !.body = CapContext(Join("\n", sections))]
    /\ call' = NoCall
    /\ UNCHANGED <<records, documents, audit, now, db, triage, failures>>

NextRace ==
    \/ \E u \in Users, in \in OwnerInputs :
           MedicalRecordListCreateView_create(u, in, "logged")
    \/ \E u \in Users, file \in RaceFiles :
           MedicalDocumentUploadView_post(u, file, "LAB_REPORT", 0, "logged")
    \/ \E u \in Users, id \in 1..MaxRecords :
           MedicalRecordDetailView_delete(u, id, "logged")
    \/ \E u \in Users : Context_exists(u)
    \/ Context_records
    \/ Context_documents

SpecRace == InitRace /\ [][NextRace]_vars

\* a line "- title ..." of a record
IsRecordLine(line) == Take(line, 2) = "- "

\* C19: whatever soft deletes commit while get_patient_medical_context runs,
\* a returned context with the "Uploaded Medical Documents" section also has
\* at least one record line.
C19_NoDocumentsAlone ==
    (/\ response.op = "context"
     /\ \E k \in DOMAIN response.sections :
            response.sections[k] = DocumentsHeading)
        => \E k \in DOMAIN response.sections :
               IsRecordLine(response.sections[k])

============================================================================
